---- MODULE Spec2Model ----
(***************************************************************************)
(* A state-machine model of python/sample.py (HistFitter, class Sample and *)
(* the module-level numeric helpers).                                      *)
(*                                                                         *)
(* Numbers.  The code works on Python floats.  The model uses fixed-point  *)
(* integers: a scalar systematic value v is the integer v * One, with      *)
(* One = 10^6, so that the code's tolerance 1e-5 is 10 units and values    *)
(* strictly inside the tolerance (1.000001) are distinct from 1.0.  Bin    *)
(* contents are integers in units of 1/100.  A quotient a / b is computed  *)
(* as (a * One) \div b; dividing by zero is the code's ZeroDivisionError.  *)
(*                                                                         *)
(* Names.  Histogram names are strings, built with \o as the code builds   *)
(* them with +.  configMgr.hists is a function from names to histograms.   *)
(***************************************************************************)
EXTENDS Integers, Sequences, FiniteSets, TLC

VARIABLES
    hists,              \* configMgr.hists: name -> histogram
    configMgrSystDict,  \* keys of configMgr.systDict (global registry)
    histoSystList,      \* Sample.histoSystList
    shapeSystList,      \* Sample.shapeSystList
    overallSystList,    \* Sample.overallSystList
    systList,           \* Sample.systList
    systDict,           \* keys of Sample.systDict
    normRegions,        \* Sample.normRegions (<<>> models None and [])
    noRenormSys,        \* Sample.noRenormSys
    parentChannel,      \* Sample.parentChannel, reduced to what addHistoSys reads
    isData,             \* Sample.isData
    normFactor,         \* Sample.normFactor
    configMgrNormList,  \* configMgr.normList (global list of factor names)
    overrideTreename,   \* Sample.overrideTreename
    prefixTreeName,     \* Sample.prefixTreeName
    suffixTreeName,     \* Sample.suffixTreeName
    currentSystematic,  \* Sample.currentSystematic (<<>> models None, <<s>> the suffix s)
    isQCD,              \* Sample.isQCD
    isDiscovery,        \* Sample.isDiscovery
    call,               \* the last call made on the Sample, and how it ended
    nCalls              \* number of calls made so far

vars == <<hists, configMgrSystDict, histoSystList, shapeSystList,
          overallSystList, systList, systDict, normRegions, noRenormSys,
          parentChannel, isData, normFactor, configMgrNormList, overrideTreename,
          prefixTreeName, suffixTreeName, currentSystematic, isQCD, isDiscovery,
          call, nCalls>>

normVars == <<normFactor, configMgrNormList>>

\* what getTreename reads, prefixTreeName apart
treeVars == <<overrideTreename, suffixTreeName, currentSystematic, isQCD, isDiscovery>>

sampleLists == <<histoSystList, shapeSystList, overallSystList, systList>>

(***************************************************************************)
(* Bounds of the model.                                                    *)
(***************************************************************************)
MaxCalls == 2
NBins == 2

(***************************************************************************)
(* Fixed-point scalars.                                                    *)
(***************************************************************************)
One == 1000000
Two == 2 * One
Cent == One \div 100          \* 0.01, the clamp of addOverallSys
Tol == One \div 100000        \* 1E-5, the tolerance of the re-check

fabs(x) == IF x < 0 THEN 0 - x ELSE x

max(a, b) == IF a >= b THEN a ELSE b

(***************************************************************************)
(* addOverallSys, lines 1099-1153, as a function of (high, low).           *)
(***************************************************************************)
\* NoInfoExact without the test of lines 1112-1114
NoInfoExactOnlyOne(high, low) == high = One /\ low = One

\* lines 1108-1114: the two exact no-information tests that return at once
NoInfoExact(high, low) ==
    \/ (high = One /\ low = One)
    \/ (high = 0 /\ low = 0)

\* SymmetrizeEqual without the assignment of line 1117
SymmetrizeEqualKeep(high, low) == <<high, low>>

\* lines 1116-1118: high == low is recovered by low = 2.0 - high
SymmetrizeEqual(high, low) ==
    IF high = low THEN <<high, Two - high>> ELSE <<high, low>>

\* MirrorHigh without the assignment of line 1122
MirrorHighNever(high, low) == <<high, low>>

\* lines 1120-1123: high pinned at 1.0 is mirrored from low
MirrorHigh(high, low) ==
    IF high = One /\ low > 0 /\ low # One THEN <<Two - low, low>> ELSE <<high, low>>

\* lines 1125-1128: low pinned at 1.0 is mirrored from high
MirrorLow(high, low) ==
    IF low = One /\ high > 0 /\ high # One THEN <<high, Two - high>> ELSE <<high, low>>

\* ClampCent with the threshold 0.1 for 0.01
ClampTenth(v) == IF v < 10 * Cent THEN 10 * Cent ELSE v

\* ClampCent without the assignments of lines 1132 and 1136
ClampCentOff(v) == v

\* lines 1130-1136: each side below 0.01 is raised to 0.01
ClampCent(v) == IF v < Cent THEN Cent ELSE v

\* lines 1142-1148: the no-information tests again, with tolerance 1E-5
NoInfoTol(high, low) ==
    \/ (fabs(high - One) < Tol /\ fabs(low - One) < Tol)
    \/ (fabs(high) < Tol /\ fabs(low) < Tol)

\* lines 1116-1136 in sequence: the pair that reaches the re-check
OverallSysRepair(high, low) ==
    LET a == SymmetrizeEqual(high, low)
        b == MirrorHigh(a[1], a[2])
        c == MirrorLow(b[1], b[2])
    IN  <<ClampCent(c[1]), ClampCent(c[2])>>

\* TRUE iff addOverallSys(high, low) reaches the append of line 1150
OverallSysStored(high, low) ==
    /\ ~NoInfoExact(high, low)
    /\ LET r == OverallSysRepair(high, low) IN ~NoInfoTol(r[1], r[2])

\* lines 1151-1152: the name is appended unless globally registered
RegisterSyst(sl, systName) ==
    IF systName \notin configMgrSystDict THEN Append(sl, systName) ELSE sl

\* the effect of addOverallSys on (overallSystList, systList)
OverallSysEffect(ovl, sl, systName, high, low) ==
    IF OverallSysStored(high, low)
    THEN LET r == OverallSysRepair(high, low)
         IN  [overall |-> Append(ovl, <<systName, r[1], r[2]>>),
              syst    |-> RegisterSyst(sl, systName)]
    ELSE [overall |-> ovl, syst |-> sl]

(***************************************************************************)
(* Histograms (ROOT TH1, an external type).  A histogram is a record of    *)
(* bin contents c and bin errors e over bins 0..NBins+1; bin 0 is the      *)
(* underflow and bin NBins+1 the overflow bin.                             *)
(***************************************************************************)
BinOne == One \div 10000      \* bin content 1.0 in units of 1/100

AllBins == 0..(NBins + 1)

Bins == 1..NBins              \* xrange(1, GetNbinsX()+1)

RECURSIVE SumTo(_, _)
SumTo(f, n) == IF n = 0 THEN 0 ELSE f[n] + SumTo(f, n - 1)

\* TH1.Integral(): the sum of the contents of bins 1..N
Integral(h) == SumTo(h.c, NBins)

\* floor of the square root of x, searched between lo and hi
RECURSIVE ISqrtIn(_, _, _)
ISqrtIn(x, lo, hi) ==
    IF lo >= hi THEN lo
    ELSE LET mid == (lo + hi + 1) \div 2
         IN  IF mid * mid <= x THEN ISqrtIn(x, mid, hi) ELSE ISqrtIn(x, lo, mid - 1)

\* sqrt(a^2 + b^2) for a, b >= 0: the errors ROOT adds in quadrature
Quad(a, b) == ISqrtIn(a * a + b * b, 0, a + b)

\* TH1.Scale(num/den): contents and errors are multiplied by the factor
Scale(h, num, den) ==
    [c |-> [i \in AllBins |-> (h.c[i] * num) \div den],
     e |-> [i \in AllBins |-> (h.e[i] * fabs(num)) \div fabs(den)]]

\* TH1.Add(g, k): contents h + k*g, errors in quadrature
Add(h, g, k) ==
    [c |-> [i \in AllBins |-> h.c[i] + k * g.c[i]],
     e |-> [i \in AllBins |-> Quad(h.e[i], fabs(k) * g.e[i])]]

\* TH1.Divide(g): bin by bin, a bin whose divisor is zero becomes zero
Divide(h, g) ==
    [c |-> [i \in AllBins |->
              IF g.c[i] = 0 THEN 0 ELSE (h.c[i] * BinOne) \div g.c[i]],
     e |-> [i \in AllBins |->
              IF g.c[i] = 0 THEN 0
              ELSE (Quad(h.e[i] * fabs(g.c[i]), g.e[i] * fabs(h.c[i])) * BinOne)
                     \div (g.c[i] * g.c[i])]]

\* TH1.Multiply(g): bin by bin
Multiply(h, g) ==
    [c |-> [i \in AllBins |-> (h.c[i] * g.c[i]) \div BinOne],
     e |-> [i \in AllBins |->
              Quad(h.e[i] * fabs(g.c[i]), g.e[i] * fabs(h.c[i])) \div BinOne]]

\* SetBinContent(i, 0.) for every bin 1..N whose content is negative
ZeroNegativeBins(h) ==
    [h EXCEPT !.c = [i \in AllBins |->
                       IF i \in Bins /\ h.c[i] < 0 THEN 0 ELSE h.c[i]]]

\* configMgr.hists[name] = h
Put(hs, name, h) == (name :> h) @@ hs

\* a / b on floats, as a fixed-point scalar (b # 0)
Ratio(a, b) == (a * One) \div b

(***************************************************************************)
(* symmetrizeSystematicEnvelope, lines 108-131.                            *)
(***************************************************************************)
\* EnvelopeErr with min for max
EnvelopeErrMin(hs, nomName, lowName, highName, i) ==
    LET lowErr == fabs(hs[nomName].c[i] - hs[lowName].c[i])
        highErr == fabs(hs[highName].c[i] - hs[nomName].c[i])
    IN  IF lowErr <= highErr THEN lowErr ELSE highErr

\* lines 115-118: the larger of the two deviations from nominal in bin i
EnvelopeErr(hs, nomName, lowName, highName, i) ==
    max(fabs(hs[nomName].c[i] - hs[lowName].c[i]),
        fabs(hs[highName].c[i] - hs[nomName].c[i]))

\* lines 120-123: the new low value of bin i; a negative value is only logged
EnvelopeNewLow(nomVal, err) == nomVal - err

\* line 124: the new high value of bin i
EnvelopeNewHigh(nomVal, err) == nomVal + err

\* lines 110-129: every bin 1..N of high, then of low, is overwritten
symmetrizeSystematicEnvelope(hs, nomName, lowName, highName) ==
    LET newHigh == [i \in AllBins |->
                      IF i \in Bins
                      THEN EnvelopeNewHigh(hs[nomName].c[i],
                               EnvelopeErr(hs, nomName, lowName, highName, i))
                      ELSE hs[highName].c[i]]
        newLow  == [i \in AllBins |->
                      IF i \in Bins
                      THEN EnvelopeNewLow(hs[nomName].c[i],
                               EnvelopeErr(hs, nomName, lowName, highName, i))
                      ELSE hs[lowName].c[i]]
        hs1     == [hs EXCEPT ![highName].c = newHigh]
    IN  [hs1 EXCEPT ![lowName].c = newLow]

(***************************************************************************)
(* checkNormalizationEffect, lines 66-81, on the three integrals.          *)
(***************************************************************************)
NormThreshold == One \div 200     \* norm_threshold=0.005, line 66

\* lines 73-77: max(|up/nom - 1|, |down/nom - 1|) < norm_threshold (nom # 0)
NormEffectNegligible(nomI, upI, downI) ==
    max(fabs(Ratio(upI, nomI) - One), fabs(Ratio(downI, nomI) - One)) < NormThreshold

\* How the call ends: "True", "False", or "NameError".  Line 78 formats the
\* log message with the name threshold, which is bound nowhere in the module
\* (the parameter is norm_threshold), so the negligible case raises NameError
\* before the return False of line 79 is reached.
checkNormalizationEffect(nomI, upI, downI) ==
    IF nomI = 0 THEN "True"
    ELSE IF NormEffectNegligible(nomI, upI, downI) THEN "NameError"
    ELSE "True"

(***************************************************************************)
(* addHistoSys, lines 627-1015.  The call is a chain of steps over a flow  *)
(* record s: the store and lists as changed so far, the flags the code     *)
(* reassigns (inc = includeOverallSys, norm = normalizeSys, sym =          *)
(* symmetrize) and status: "run", "return" (an early return) or the name   *)
(* of the exception raised.  a is the record of the call's arguments.      *)
(***************************************************************************)
\* Logger.fatal (logger.py): logs and aborts the configuration pass
LogFatalAborts == TRUE

\* Sample.normSampleRemap: set in __init__, never reassigned in this file
normSampleRemap == ""

\* StepFatal with log.fatal returning to the caller
StepFatalNever(s, a) == s

\* lines 652-653
StepFatal(s, a) ==
    IF a.oneSide /\ a.symmetrizeEnvelope /\ LogFatalAborts
    THEN [s EXCEPT !.status = "Fatal"]
    ELSE s

\* lines 658-667 (low) and 669-678 (high): clone to name_test, Divide by the
\* nomSys histogram, Multiply by nominal.  ok is TH1.Divide's return value.
RescaleOnNomSys(s, a, name, ok) ==
    LET hs1 == Put(s.hists, name \o "_test", s.hists[name])
    IN  IF ~ok
        THEN [s EXCEPT !.hists = hs1, !.status = "RuntimeError"]
        ELSE [s EXCEPT !.hists =
                Put(hs1, name,
                    Multiply(Divide(hs1[name], hs1[a.nomSysName]), hs1[a.nomName]))]

\* lines 656-678
StepNomSys(s, a) ==
    IF s.status # "run" \/ a.nomSysName = "" THEN s
    ELSE LET s1 == RescaleOnNomSys(s, a, a.lowName, a.divideOk[1])
         IN  IF s1.status # "run" THEN s1
             ELSE RescaleOnNomSys(s1, a, a.highName, a.divideOk[2])

\* lines 680-682
StepNoRenorm(s, a) ==
    IF s.status = "run" /\ s.nrs /\ s.norm THEN [s EXCEPT !.norm = FALSE] ELSE s

\* StepDefaultRegions without the default of lines 686-693
StepDefaultRegionsSkip(s, a) == s

\* lines 684-694: the default regions come from the parent fit configuration;
\* parentChannel is None on a Sample that was never attached to a channel
StepDefaultRegions(s, a) ==
    IF s.status = "run" /\ s.norm /\ s.nr = <<>>
    THEN IF ~parentChannel.attached
         THEN [s EXCEPT !.status = "AttributeError"]
         ELSE [s EXCEPT !.nr = parentChannel.normChannels, !.nrs = FALSE]
    ELSE s

\* OneSidedMirror without the loop of lines 718-721
OneSidedMirrorUnclamped(hs, nomName, highName, lowName) ==
    LET twice == Scale(hs[nomName], 2, 1)
        hs1   == Put(hs, lowName, twice)
    IN  Put(hs1, lowName, Add(hs1[lowName], hs1[highName], -1))

\* lines 714-721 (also 856-863 and 968-975): low = max(0, 2*nominal - high)
OneSidedMirror(hs, nomName, highName, lowName) ==
    LET twice == Scale(hs[nomName], 2, 1)
        hs1   == Put(hs, lowName, twice)
    IN  Put(hs1, lowName, ZeroNegativeBins(Add(hs1[lowName], hs1[highName], -1)))

\* lines 707-721: the symmetrization policy of Case 1
SymmetrizePolicyCase1(hs, a, sym) ==
    IF sym /\ a.symmetrizeEnvelope
    THEN symmetrizeSystematicEnvelope(hs, a.nomName, a.lowName, a.highName)
    ELSE IF a.oneSide /\ sym
    THEN OneSidedMirror(hs, a.nomName, a.highName, a.lowName)
    ELSE hs

\* lines 849-863: the symmetrization policy of Case 2
SymmetrizePolicyCase2(hs, a, sym) ==
    IF a.symmetrizeEnvelope
    THEN symmetrizeSystematicEnvelope(hs, a.nomName, a.lowName, a.highName)
    ELSE IF a.oneSide /\ sym
    THEN OneSidedMirror(hs, a.nomName, a.highName, a.lowName)
    ELSE hs

\* lines 724-733: the names of the remapped normalization histograms
RemapName(a, var) ==
    "h" \o (IF normSampleRemap # "" THEN normSampleRemap ELSE a.samName)
        \o a.systName \o var \o a.normString \o "Norm"

NomRemapName(a) ==
    "h" \o (IF normSampleRemap # "" THEN normSampleRemap ELSE a.samName)
        \o "Nom_" \o a.normString \o "Norm"

\* lines 748-758: the low integral of Case 1, after the one-sided approximation
Case1LowIntegral(oneSidedSym, nomI, highI, lowRemapI) ==
    IF ~oneSidedSym THEN lowRemapI
    ELSE IF 2 * nomI - highI >= 0 THEN 2 * nomI - highI
    ELSE IF lowRemapI = 0 THEN nomI
    ELSE lowRemapI

\* NormClonesCase1 with the ZeroDivisionError of lines 775-781 not raised
NormClonesUnguarded(hs, a, high, low) ==
    [hists |-> Put(Put(hs, a.highName \o "Norm", hs[a.highName]),
                   a.lowName \o "Norm", hs[a.lowName]),
     ok |-> TRUE]

\* lines 770-781: the Norm clones of Case 1.  The log.debug call of line 776
\* evaluates 1.0/high and 1.0/low inside the try block, so ZeroDivisionError
\* is raised before either clone is scaled.
NormClonesCase1(hs, a, high, low) ==
    LET hs1 == Put(Put(hs, a.highName \o "Norm", hs[a.highName]),
                   a.lowName \o "Norm", hs[a.lowName])
    IN  IF high = 0 \/ low = 0 THEN [hists |-> hs1, ok |-> FALSE]
        ELSE [hists |-> Put(Put(hs1, a.highName \o "Norm",
                                Scale(hs1[a.highName \o "Norm"], One, high)),
                            a.lowName \o "Norm",
                            Scale(hs1[a.lowName \o "Norm"], One, low)),
              ok |-> TRUE]

\* lines 894-901: the Norm clones of Case 2, scaled by 1/high and 1/low.
\* Scale(1./high) raises ZeroDivisionError when high is zero, and so does
\* Scale(1./low) after the high clone was already scaled.
NormClones(hs, a, high, low) ==
    LET hs1 == Put(Put(hs, a.highName \o "Norm", hs[a.highName]),
                   a.lowName \o "Norm", hs[a.lowName])
    IN  IF high = 0 THEN [hists |-> hs1, ok |-> FALSE]
        ELSE LET hs2 == Put(hs1, a.highName \o "Norm",
                            Scale(hs1[a.highName \o "Norm"], One, high))
             IN  IF low = 0 THEN [hists |-> hs2, ok |-> FALSE]
                 ELSE [hists |-> Put(hs2, a.lowName \o "Norm",
                                     Scale(hs2[a.lowName \o "Norm"], One, low)),
                       ok |-> TRUE]

\* lines 701-842
Case1(s, a) ==
    IF s.status # "run" \/ ~s.norm THEN s
    ELSE IF s.nr = <<>> THEN [s EXCEPT !.status = "RuntimeError"]
    ELSE
    LET hs1    == SymmetrizePolicyCase1(s.hists, a, s.sym)
        highI  == Integral(hs1[RemapName(a, "High_")])
        lowRI  == Integral(hs1[RemapName(a, "Low_")])
        nomI   == IF a.nomSysName # ""
                  THEN Integral(hs1[RemapName(a, "Nom_")])
                  ELSE Integral(hs1[NomRemapName(a)])
        osSym  == a.oneSide /\ s.sym
        lowI   == Case1LowIntegral(osSym, nomI, highI, lowRI)
        sym1   == IF osSym /\ 2 * nomI - highI < 0 THEN FALSE ELSE s.sym
        s1     == [s EXCEPT !.hists = hs1, !.sym = sym1]
    IN  IF nomI = 0 THEN [s1 EXCEPT !.status = "return"]
        ELSE
        LET high  == Ratio(highI, nomI)
            low   == Ratio(lowI, nomI)
            nc    == NormClonesCase1(hs1, a, high, low)
        IN  IF ~nc.ok THEN [s1 EXCEPT !.hists = nc.hists, !.status = "return"]
            ELSE
            LET hs3     == nc.hists
                oneOnly == a.oneSide /\ ~sym1
                nomIN   == Integral(hs3[a.nomName])
                lowIN   == Integral(hs3[a.lowName \o "Norm"])
                highIN  == Integral(hs3[a.highName \o "Norm"])
                tryOv   == s.inc /\ ~oneOnly
                zeroN   == nomIN = 0 \/ highIN = 0 \/ lowIN = 0
                inc1    == IF tryOv /\ zeroN THEN FALSE ELSE s.inc
                doOv    == tryOv /\ ~zeroN
                highN   == Ratio(highIN, nomIN)
                lowN    == Ratio(lowIN, nomIN)
                hs4     == IF doOv
                           THEN Put(Put(hs3, a.highName \o "Norm",
                                        Scale(hs3[a.highName \o "Norm"], One, highN)),
                                    a.lowName \o "Norm",
                                    Scale(hs3[a.lowName \o "Norm"], One, lowN))
                           ELSE hs3
                entry   == IF oneOnly
                           THEN <<a.systName, a.highName \o "Norm", a.nomName>>
                           ELSE <<a.systName, a.highName \o "Norm", a.lowName \o "Norm">>
                ov      == IF inc1 /\ ~oneOnly
                           THEN OverallSysEffect(s.overall, s.syst, a.systName, highN, lowN)
                           ELSE [overall |-> s.overall, syst |-> s.syst]
            IN  [s1 EXCEPT !.hists = hs4, !.inc = inc1,
                           !.histo = Append(s.histo, entry),
                           !.overall = ov.overall, !.syst = ov.syst]

\* Case2 with the test of line 880 always taken
Case2AlwaysRaw(s, a) ==
    IF s.status # "run" \/ ~(s.inc /\ ~s.norm) THEN s
    ELSE [s EXCEPT !.hists = SymmetrizePolicyCase2(s.hists, a, s.sym),
                   !.histo = Append(s.histo, <<a.systName, a.highName, a.lowName>>)]

\* lines 845-906
Case2(s, a) ==
    IF s.status # "run" \/ ~(s.inc /\ ~s.norm) THEN s
    ELSE
    LET hs1   == SymmetrizePolicyCase2(s.hists, a, s.sym)
        nomI  == Integral(hs1[a.nomName])
        lowI  == Integral(hs1[a.lowName])
        highI == Integral(hs1[a.highName])
    IN  IF nomI = 0 \/ lowI = 0 \/ highI = 0
        THEN [s EXCEPT !.hists = hs1,
                       !.histo = Append(s.histo, <<a.systName, a.highName, a.lowName>>)]
        ELSE
        LET high == Ratio(highI, nomI)
            low  == Ratio(lowI, nomI)
            nc   == NormClones(hs1, a, high, low)
            ov   == OverallSysEffect(s.overall, s.syst, a.systName, high, low)
        IN  IF ~nc.ok THEN [s EXCEPT !.hists = nc.hists, !.status = "return"]
            ELSE [s EXCEPT !.hists = nc.hists,
                           !.histo = Append(s.histo,
                               <<a.systName, a.highName \o "Norm", a.lowName \o "Norm">>),
                           !.overall = ov.overall, !.syst = ov.syst]

\* Case3Symmetrize without the corrections of lines 938-962
Case3SymmetrizeRaw(s, a) ==
    IF Integral(s.hists[a.nomName]) = 0 THEN [s EXCEPT !.status = "return"]
    ELSE [s EXCEPT !.histo = Append(s.histo, <<a.systName, a.highName, a.lowName>>)]

\* lines 925-964: Case 3, symmetrize without oneSide or symmetrizeEnvelope
Case3Symmetrize(s, a) ==
    LET nomI  == Integral(s.hists[a.nomName])
        lowI  == Integral(s.hists[a.lowName])
        highI == Integral(s.hists[a.highName])
    IN  IF nomI = 0 THEN [s EXCEPT !.status = "return"]
        ELSE
        LET high == Ratio(highI, nomI)
            low  == Ratio(lowI, nomI)
            hN   == a.highName \o "Norm"
            lN   == a.lowName \o "Norm"
        IN  IF high < One /\ One > low /\ low > 0
            THEN LET hs1 == Put(s.hists, hN, s.hists[a.highName])
                 IN  IF high = 0
                     THEN [s EXCEPT !.hists = hs1, !.status = "return"]
                     ELSE [s EXCEPT !.hists = Put(hs1, hN, Scale(hs1[hN], Two - low, high)),
                                    !.histo = Append(s.histo, <<a.systName, hN, a.lowName>>)]
            ELSE IF low > One /\ high > One
            THEN LET hs1 == Put(s.hists, lN, s.hists[a.lowName])
                 IN  [s EXCEPT !.hists = Put(hs1, lN, Scale(hs1[lN], Two - high, low)),
                               !.histo = Append(s.histo, <<a.systName, a.highName, lN>>)]
            ELSE IF low < 0
            THEN [s EXCEPT !.hists = Put(s.hists, lN, ZeroNegativeBins(s.hists[a.lowName])),
                           !.histo = Append(s.histo, <<a.systName, a.highName, lN>>)]
            ELSE [s EXCEPT !.histo = Append(s.histo, <<a.systName, a.highName, a.lowName>>)]

\* lines 984-1011: Case 3, the default branch; the block under "if not True"
\* (lines 997-1009) never runs
Case3Default(s, a) ==
    LET r == checkNormalizationEffect(Integral(s.hists[a.nomName]),
                                      Integral(s.hists[a.highName]),
                                      Integral(s.hists[a.lowName]))
    IN  IF r = "NameError" THEN [s EXCEPT !.status = "NameError"]
        ELSE [s EXCEPT !.histo = Append(s.histo, <<a.systName, a.highName, a.lowName>>)]

\* Case3 entered whatever Case 1 and Case 2 did before (no test of line 922)
Case3Unguarded(s, a) ==
    IF s.status # "run" THEN s
    ELSE [s EXCEPT !.histo = Append(s.histo, <<a.systName, a.highName, a.lowName>>)]

\* lines 921-1011
Case3(s, a) ==
    IF s.status # "run" \/ ~(~s.inc /\ ~s.norm) THEN s
    ELSE IF s.sym /\ ~(a.oneSide \/ a.symmetrizeEnvelope) THEN Case3Symmetrize(s, a)
    ELSE IF s.sym /\ a.oneSide
    THEN [s EXCEPT !.hists = OneSidedMirror(s.hists, a.nomName, a.highName, a.lowName),
                   !.histo = Append(s.histo, <<a.systName, a.highName, a.lowName>>)]
    ELSE IF s.sym /\ a.symmetrizeEnvelope
    THEN [s EXCEPT !.hists = symmetrizeSystematicEnvelope(s.hists, a.nomName,
                                                          a.lowName, a.highName),
                   !.histo = Append(s.histo, <<a.systName, a.highName, a.lowName>>)]
    ELSE Case3Default(s, a)

\* StepRegister without the append of line 1014
StepRegisterNever(s, a) == s

\* lines 1013-1014: reached by every path that neither returned nor raised
StepRegister(s, a) ==
    IF s.status = "run" THEN [s EXCEPT !.syst = RegisterSyst(s.syst, a.systName)] ELSE s

\* the whole call, from the state before it
addHistoSysFlow(a) ==
    LET s0 == [hists |-> hists, overall |-> overallSystList, syst |-> systList,
               status |-> "run", nrs |-> noRenormSys, norm |-> a.normalizeSys,
               nr |-> normRegions, sym |-> a.symmetrize,
               inc |-> a.includeOverallSys, histo |-> histoSystList]
        s1 == StepFatal(s0, a)
        s2 == StepNomSys(s1, a)
        s3 == StepNoRenorm(s2, a)
        s4 == StepDefaultRegions(s3, a)
        s5 == Case1(s4, a)
        s6 == Case2(s5, a)
        s7 == Case3(s6, a)
    IN  StepRegister(s7, a)

\* how a call ended: the exception it raised, or "none"
Raised(status) == IF status \in {"run", "return"} THEN "none" ELSE status

(***************************************************************************)
(* The operations of a Sample as actions.                                  *)
(***************************************************************************)
AddHistoSys(a) ==
    /\ nCalls < MaxCalls
    /\ \E s \in {addHistoSysFlow(a)} :
           /\ hists' = s.hists
           /\ histoSystList' = s.histo
           /\ overallSystList' = s.overall
           /\ systList' = s.syst
           /\ normRegions' = s.nr
           /\ noRenormSys' = s.nrs
           /\ call' = [a |-> a, op |-> "addHistoSys", raised |-> Raised(s.status),
                       returned |-> s.status = "return"]
    /\ nCalls' = nCalls + 1
    /\ UNCHANGED <<normVars, treeVars, prefixTreeName, configMgrSystDict, shapeSystList, systDict, parentChannel, isData>>

\* lines 1099-1153
AddOverallSys(systName, high, low) ==
    /\ nCalls < MaxCalls
    /\ LET r == OverallSysEffect(overallSystList, systList, systName, high, low)
       IN  /\ overallSystList' = r.overall
           /\ systList' = r.syst
    /\ call' = [a |-> [high |-> high, low |-> low, systName |-> systName], op |-> "addOverallSys",
                raised |-> "none", returned |-> FALSE]
    /\ nCalls' = nCalls + 1
    /\ UNCHANGED <<normVars, treeVars, prefixTreeName, hists, configMgrSystDict, histoSystList, shapeSystList, systDict,
                   normRegions, noRenormSys, parentChannel, isData>>

\* lines 1038-1044 and 1046-1052: |content/nominal - 1| in bins 0..N, 0 where
\* the nominal content is zero (ZeroDivisionError); the bin errors are zeroed
RelativeDeviation(h, nom) ==
    [c |-> [i \in AllBins |->
              IF i > NBins THEN h.c[i]
              ELSE IF nom.c[i] = 0 THEN 0
              ELSE fabs((h.c[i] * BinOne) \div nom.c[i] - BinOne)],
     e |-> [i \in AllBins |-> IF i > NBins THEN h.e[i] ELSE 0]]

\* MaxDeviation that keeps the deviation of the high histogram
MaxDeviationHighOnly(h, high, low) ==
    [c |-> [i \in AllBins |-> IF i > NBins THEN h.c[i] ELSE high.c[i]],
     e |-> [i \in AllBins |-> IF i > NBins THEN h.e[i] ELSE 0]]

\* lines 1054-1062: the larger of the two relative deviations in bins 0..N
MaxDeviation(h, high, low) ==
    [c |-> [i \in AllBins |->
              IF i > NBins THEN h.c[i] ELSE max(high.c[i], low.c[i])],
     e |-> [i \in AllBins |-> IF i > NBins THEN h.e[i] ELSE 0]]

\* lines 1029-1062: the three Norm histograms addShapeSys leaves in the store
addShapeSysHists(hs, nomName, highName, lowName) ==
    LET hs1 == Put(hs, highName \o "Norm", hs[highName])
        hs2 == Put(hs1, lowName \o "Norm", hs1[lowName])
        hs3 == Put(hs2, nomName \o "Norm", hs2[nomName])
        hs4 == Put(hs3, highName \o "Norm",
                   RelativeDeviation(hs3[highName \o "Norm"], hs3[nomName]))
        hs5 == Put(hs4, lowName \o "Norm",
                   RelativeDeviation(hs4[lowName \o "Norm"], hs4[nomName]))
    IN  Put(hs5, nomName \o "Norm",
            MaxDeviation(hs5[nomName \o "Norm"], hs5[highName \o "Norm"],
                         hs5[lowName \o "Norm"]))

\* lines 1018-1067: no statement of addShapeSys touches shapeSystList
AddShapeSys(systName, nomName, highName, lowName, constraintType) ==
    /\ nCalls < MaxCalls
    /\ hists' = addShapeSysHists(hists, nomName, highName, lowName)
    /\ systList' = RegisterSyst(systList, systName)
    /\ call' = [a |-> [systName |-> systName, nomName |-> nomName, lowName |-> lowName,
                       highName |-> highName, constraintType |-> constraintType],
                op |-> "addShapeSys",
                raised |-> "none", returned |-> FALSE]
    /\ nCalls' = nCalls + 1
    /\ UNCHANGED <<normVars, treeVars, prefixTreeName, configMgrSystDict, histoSystList, shapeSystList, overallSystList,
                   systDict, normRegions, noRenormSys, parentChannel, isData>>

\* lines 1082-1093: binError/binContent in bins 0..N, zeroed below the threshold;
\* statErrorThreshold is <<>> for None and <<t>> for the threshold t
StatErrorRatio(h, nom, statErrorThreshold) ==
    [c |-> [i \in AllBins |->
              IF i > NBins THEN h.c[i]
              ELSE IF nom.c[i] = 0 THEN 0
              ELSE LET ratio == (nom.e[i] * BinOne) \div nom.c[i]
                   IN  IF statErrorThreshold # <<>> /\ ratio < statErrorThreshold[1]
                       THEN 0 ELSE ratio],
     e |-> [i \in AllBins |-> IF i > NBins THEN h.e[i] ELSE 0]]

\* lines 1070-1096
AddShapeStat(systName, nomName, constraintType, statErrorThreshold) ==
    /\ nCalls < MaxCalls
    /\ hists' = Put(hists, nomName \o "Norm",
                    StatErrorRatio(hists[nomName], hists[nomName], statErrorThreshold))
    /\ systList' = RegisterSyst(systList, systName)
    /\ call' = [a |-> [systName |-> systName, nomName |-> nomName,
                       constraintType |-> constraintType,
                       statErrorThreshold |-> statErrorThreshold],
                op |-> "addShapeStat",
                raised |-> "none", returned |-> FALSE]
    /\ nCalls' = nCalls + 1
    /\ UNCHANGED <<normVars, treeVars, prefixTreeName, configMgrSystDict, histoSystList, shapeSystList, overallSystList,
                   systDict, normRegions, noRenormSys, parentChannel, isData>>

\* index of the first entry of list whose name is systName, 0 when there is none
RECURSIVE FirstIndexFrom(_, _, _)
FirstIndexFrom(list, systName, i) ==
    IF i > Len(list) THEN 0
    ELSE IF list[i][1] = systName THEN i
    ELSE FirstIndexFrom(list, systName, i + 1)

FirstIndex(list, systName) == FirstIndexFrom(list, systName, 1)

\* lines 1287-1291: the first entry of the same name becomes rsyst, as given
replaceOverallSysList(ovl, rsyst) ==
    LET idx == FirstIndex(ovl, rsyst[1])
    IN  IF idx = 0 THEN ovl ELSE [ovl EXCEPT ![idx] = rsyst]

\* lines 1281-1291
ReplaceOverallSys(rsyst) ==
    /\ nCalls < MaxCalls
    /\ overallSystList' = replaceOverallSysList(overallSystList, rsyst)
    /\ call' = [a |-> [rsyst |-> rsyst], op |-> "replaceOverallSys",
                raised |-> "none", returned |-> FALSE]
    /\ nCalls' = nCalls + 1
    /\ UNCHANGED <<normVars, treeVars, prefixTreeName, hists, configMgrSystDict, histoSystList, shapeSystList, systList,
                   systDict, normRegions, noRenormSys, parentChannel, isData>>

\* del list[idx]
DeleteAt(list, idx) ==
    SubSeq(list, 1, idx - 1) \o SubSeq(list, idx + 1, Len(list))

\* del d[name] on a dictionary that holds name
DeleteKey(d, name) == [k \in (DOMAIN d) \ {name} |-> d[k]]

\* lines 1315-1326, with removeSystematic (lines 1361-1372): the entry is
\* deleted first, then del self.systDict[name] raises KeyError for a name that
\* is no key of systDict
RemoveOverallSys(systName) ==
    /\ nCalls < MaxCalls
    /\ LET idx == FirstIndex(overallSystList, systName)
       IN  IF idx = 0
           THEN /\ UNCHANGED <<normVars, treeVars, prefixTreeName, overallSystList, systDict>>
                /\ call' = [a |-> [systName |-> systName], op |-> "removeOverallSys",
                            raised |-> "none", returned |-> FALSE]
           ELSE /\ overallSystList' = DeleteAt(overallSystList, idx)
                /\ IF systName \in DOMAIN systDict
                   THEN /\ systDict' = DeleteKey(systDict, systName)
                        /\ call' = [a |-> [systName |-> systName], op |-> "removeOverallSys",
                                    raised |-> "none", returned |-> FALSE]
                   ELSE /\ UNCHANGED systDict
                        /\ call' = [a |-> [systName |-> systName], op |-> "removeOverallSys",
                                    raised |-> "KeyError", returned |-> FALSE]
    /\ nCalls' = nCalls + 1
    /\ UNCHANGED <<normVars, treeVars, prefixTreeName, hists, configMgrSystDict, histoSystList, shapeSystList, systList,
                   normRegions, noRenormSys, parentChannel, isData>>

\* AddSystematic without the test of lines 1260-1262
AddSystematicOnData(syst) ==
    /\ nCalls < MaxCalls
    /\ IF syst.name \in DOMAIN systDict
       THEN /\ UNCHANGED systDict
            /\ call' = [a |-> [syst |-> syst], op |-> "addSystematic",
                        raised |-> "Exception", returned |-> FALSE]
       ELSE /\ systDict' = (syst.name :> syst) @@ systDict
            /\ call' = [a |-> [syst |-> syst], op |-> "addSystematic",
                        raised |-> "none", returned |-> FALSE]
    /\ nCalls' = nCalls + 1
    /\ UNCHANGED <<normVars, treeVars, prefixTreeName, hists, configMgrSystDict, histoSystList, shapeSystList,
                   overallSystList, systList, normRegions, noRenormSys,
                   parentChannel, isData>>

\* AddSystematic without the test of lines 1265-1266: the entry is overwritten
AddSystematicOverwriting(syst) ==
    /\ nCalls < MaxCalls
    /\ IF isData
       THEN /\ UNCHANGED systDict
            /\ call' = [a |-> [syst |-> syst], op |-> "addSystematic",
                        raised |-> "none", returned |-> TRUE]
       ELSE /\ systDict' = [k \in DOMAIN systDict \cup {syst.name} |->
                              IF k = syst.name THEN syst ELSE systDict[k]]
            /\ call' = [a |-> [syst |-> syst], op |-> "addSystematic",
                        raised |-> "none", returned |-> FALSE]
    /\ nCalls' = nCalls + 1
    /\ UNCHANGED <<normVars, treeVars, prefixTreeName, hists, configMgrSystDict, histoSystList, shapeSystList,
                   overallSystList, systList, normRegions, noRenormSys,
                   parentChannel, isData>>

\* lines 1254-1269: syst is a descriptor record with a name; Clone() copies it
AddSystematic(syst) ==
    /\ nCalls < MaxCalls
    /\ IF isData
       THEN /\ UNCHANGED systDict
            /\ call' = [a |-> [syst |-> syst], op |-> "addSystematic",
                        raised |-> "none", returned |-> TRUE]
       ELSE IF syst.name \in DOMAIN systDict
       THEN /\ UNCHANGED systDict
            /\ call' = [a |-> [syst |-> syst], op |-> "addSystematic",
                        raised |-> "Exception", returned |-> FALSE]
       ELSE /\ systDict' = (syst.name :> syst) @@ systDict
            /\ call' = [a |-> [syst |-> syst], op |-> "addSystematic",
                        raised |-> "none", returned |-> FALSE]
    /\ nCalls' = nCalls + 1
    /\ UNCHANGED <<normVars, treeVars, prefixTreeName, hists, configMgrSystDict, histoSystList, shapeSystList,
                   overallSystList, systList, normRegions, noRenormSys,
                   parentChannel, isData>>

\* lines 303-309: setData(isData) flags the Sample as data or not
SetData(flag) ==
    /\ isData' = flag
    /\ call' = [a |-> [isData |-> flag], op |-> "setData",
                raised |-> "none", returned |-> FALSE]
    /\ UNCHANGED <<normVars, treeVars, prefixTreeName, hists, configMgrSystDict, histoSystList, shapeSystList,
                   overallSystList, systList, systDict, normRegions, noRenormSys,
                   parentChannel, nCalls>>

\* symmetrizeSystematicEnvelope called on the store directly
SymmetrizeSystematicEnvelopeCall(nomName, lowName, highName) ==
    /\ nCalls < MaxCalls
    /\ hists' = symmetrizeSystematicEnvelope(hists, nomName, lowName, highName)
    /\ call' = [a |-> [nomName |-> nomName, lowName |-> lowName, highName |-> highName],
                op |-> "symmetrizeSystematicEnvelope",
                raised |-> "none", returned |-> FALSE]
    /\ nCalls' = nCalls + 1
    /\ UNCHANGED <<normVars, treeVars, prefixTreeName, configMgrSystDict, histoSystList, shapeSystList, overallSystList,
                   systList, systDict, normRegions, noRenormSys, parentChannel, isData>>

\* checkNormalizationEffect called on three histograms of the store; returned
\* is the value returned when nothing is raised
CheckNormalizationEffectCall(nomName, upName, downName) ==
    /\ nCalls < MaxCalls
    /\ \E r \in {checkNormalizationEffect(Integral(hists[nomName]), Integral(hists[upName]),
                                         Integral(hists[downName]))} :
         call' = [a |-> [nomI |-> Integral(hists[nomName]), upI |-> Integral(hists[upName]),
                         downI |-> Integral(hists[downName])],
                  op |-> "checkNormalizationEffect",
                  raised |-> IF r = "NameError" THEN "NameError" ELSE "none",
                  returned |-> r = "True"]
    /\ nCalls' = nCalls + 1
    /\ UNCHANGED <<normVars, treeVars, prefixTreeName, hists, configMgrSystDict, histoSystList, shapeSystList, overallSystList,
                   systList, systDict, normRegions, noRenormSys, parentChannel, isData>>

\* lines 516-523: "" stands for Nom, Up for High, Down for Low
CanonicalVariation(variation) ==
    IF variation = "" THEN "Nom"
    ELSE IF variation = "Up" THEN "High"
    ELSE IF variation = "Down" THEN "Low"
    ELSE variation

\* lines 496-530.  The result is <<raised, name>>.  A name is the sequence of
\* the pieces that format() joins; replaceSymbols (configManager) is kept as
\* an uninterpreted application <<"replaceSymbols", variableName>>.
\* blinded is the answer of parentChannel.isBlinded(fitConfig), which
\* isBlinded (lines 458-473) asks only for a data Sample; parentChannel is
\* None on a Sample without channel, and reading it raises AttributeError.
\* Line 528 formats a message with two fields from one argument, which
\* raises IndexError before the ValueError is constructed.
getHistogramName(name, data, ch, fitName, blinded, syst_name, variation) ==
    IF data /\ variation # "" THEN <<"ValueError", <<>>>>
    ELSE IF data
    THEN IF ~ch.attached THEN <<"AttributeError", <<>>>>
         ELSE IF blinded
         THEN <<"none", <<"h", fitName, name, "Blind_", ch.regions, "_obs">>>>
         ELSE <<"none", <<"h", name, "_", ch.regions, "_obs_",
                          <<"replaceSymbols", ch.variableName>>>>>>
    ELSE IF CanonicalVariation(variation) \notin {"Nom", "High", "Low"}
    THEN <<"IndexError", <<>>>>
    ELSE IF ~ch.attached THEN <<"AttributeError", <<>>>>
    ELSE <<"none", <<"h", name, syst_name, CanonicalVariation(variation), "_", ch.regions,
                     "_obs_", <<"replaceSymbols", ch.variableName>>>>>>

\* getHistogramName called on the Sample; returned is the name, <<>> when the
\* call raises
GetHistogramNameCall(name, fitName, blinded, syst_name, variation) ==
    /\ nCalls < MaxCalls
    /\ \E r \in {getHistogramName(name, isData, parentChannel, fitName, blinded,
                                  syst_name, variation)} :
         call' = [a |-> [variation |-> variation, blinded |-> blinded,
                         syst_name |-> syst_name],
                  op |-> "getHistogramName", raised |-> r[1], returned |-> r[2]]
    /\ nCalls' = nCalls + 1
    /\ UNCHANGED <<normVars, treeVars, prefixTreeName, hists, configMgrSystDict, histoSystList, shapeSystList, overallSystList,
                   systList, systDict, normRegions, noRenormSys, parentChannel, isData>>

\* line 1165: addNormFactor(name, val, high, low, const) appends the 5-tuple
addNormFactorList(nf, name, val, high, low, const) ==
    Append(nf, <<name, val, high, low, const>>)

\* lines 1180-1181: setNormFactor(name, val, low, high, const) takes low as
\* its third and high as its fourth parameter and stores high before low
setNormFactorList(name, val, low, high, const) ==
    Append(<<>>, <<name, val, high, low, const>>)

\* lines 1166-1167 and 1182-1183: the name is appended unless already listed
RegisterNormFactor(nl, name) ==
    IF \E i \in 1..Len(nl) : nl[i] = name THEN nl ELSE Append(nl, name)

\* lines 1155-1168; call.a is the tuple of the positional arguments
AddNormFactor(name, val, third, fourth, const) ==
    /\ nCalls < MaxCalls
    /\ normFactor' = addNormFactorList(normFactor, name, val, third, fourth, const)
    /\ configMgrNormList' = RegisterNormFactor(configMgrNormList, name)
    /\ call' = [a |-> <<name, val, third, fourth, const>>, op |-> "addNormFactor",
                raised |-> "none", returned |-> FALSE]
    /\ nCalls' = nCalls + 1
    /\ UNCHANGED <<treeVars, prefixTreeName, hists, configMgrSystDict, histoSystList,
                   shapeSystList, overallSystList, systList, systDict, normRegions,
                   noRenormSys, parentChannel, isData>>

\* lines 1170-1184; call.a is the tuple of the positional arguments
SetNormFactor(name, val, third, fourth, const) ==
    /\ nCalls < MaxCalls
    /\ normFactor' = setNormFactorList(name, val, third, fourth, const)
    /\ configMgrNormList' = RegisterNormFactor(configMgrNormList, name)
    /\ call' = [a |-> <<name, val, third, fourth, const>>, op |-> "setNormFactor",
                raised |-> "none", returned |-> FALSE]
    /\ nCalls' = nCalls + 1
    /\ UNCHANGED <<treeVars, prefixTreeName, hists, configMgrSystDict, histoSystList,
                   shapeSystList, overallSystList, systList, systDict, normRegions,
                   noRenormSys, parentChannel, isData>>

\* configMgr.nomName, the suffix of the nominal tree (line 593)
configMgrNomName == "_NoSys"

\* lines 581-595
getTreenameSuffix ==
    IF suffixTreeName # "" THEN suffixTreeName
    ELSE IF ~isData /\ ~isQCD /\ ~isDiscovery
    THEN IF currentSystematic # <<>> THEN currentSystematic[1] ELSE configMgrNomName
    ELSE ""

\* lines 597-622.  The result is <<raised, name, prefixTreeName afterwards>>.
\* Line 606 stores the sample name as prefix before the suffix is looked at;
\* line 611 calls copy, a name this module never binds (line 32 imports only
\* deepcopy from copy), which raises NameError.
getTreename(name, suffix) ==
    IF overrideTreename # "" THEN <<"none", overrideTreename, prefixTreeName>>
    ELSE LET prefix == IF prefixTreeName = "" THEN name ELSE prefixTreeName
         IN  IF suffix # "" THEN <<"NameError", "", prefix>>
             ELSE <<"none", prefix \o getTreenameSuffix, prefix>>

\* getTreename called on the Sample; returned is the tree name, "" when the
\* call raises
GetTreenameCall(name, suffix) ==
    /\ nCalls < MaxCalls
    /\ \E r \in {getTreename(name, suffix)} :
         /\ prefixTreeName' = r[3]
         /\ call' = [a |-> [suffix |-> suffix], op |-> "getTreename",
                     raised |-> r[1], returned |-> r[2]]
    /\ nCalls' = nCalls + 1
    /\ UNCHANGED <<normVars, treeVars, hists, configMgrSystDict, histoSystList,
                   shapeSystList, overallSystList, systList, systDict, normRegions,
                   noRenormSys, parentChannel, isData>>

(***************************************************************************)
(* Inputs.  One sample "Top" in a signal region SR, normalized in CR; the  *)
(* histogram names follow the pattern of lines 731-733.                    *)
(***************************************************************************)
SampleName == "Top"

SystNames == {"JES", "Lumi"}

NomName == "h" \o SampleName \o "Nom_SR"

HighName(syst) == "h" \o SampleName \o syst \o "High_SR"

LowName(syst) == "h" \o SampleName \o syst \o "Low_SR"

NomSysName(syst) == "h" \o SampleName \o syst \o "Nom_SR"

\* a histogram with content first + (i-1)*step and error err in bins 1..N
MkHist(first, step, err) ==
    [c |-> [i \in AllBins |-> IF i \in Bins THEN first + (i - 1) * step ELSE 0],
     e |-> [i \in AllBins |-> IF i \in Bins THEN err ELSE 0]]

\* a histogram with the given contents (a function on 1..N) and error err
HistOf(contents, err) ==
    [c |-> [i \in AllBins |-> IF i \in Bins THEN contents[i] ELSE 0],
     e |-> [i \in AllBins |-> IF i \in Bins THEN err ELSE 0]]

\* the arguments of an addHistoSys call for systematic syst
HistoSysArgs(syst, inc, norm, sym, oneSide, env, nomSys, divideOk) ==
    [systName |-> syst, nomName |-> NomName, lowName |-> LowName(syst),
     highName |-> HighName(syst), oneSide |-> oneSide, symmetrizeEnvelope |-> env,
     nomSysName |-> nomSys, divideOk |-> divideOk, samName |-> SampleName,
     normString |-> "CR", normalizeSys |-> norm, symmetrize |-> sym,
     includeOverallSys |-> inc]

\* the store a configuration pass has filled before the systematics are added:
\* nominal, high and low in SR, their counterparts summed over the
\* normalization regions, and the nominal of the systematic's own tree
StoreOf(nom, high, low, nomSys) ==
    LET a(syst) == HistoSysArgs(syst, FALSE, FALSE, FALSE, FALSE, FALSE, "", <<TRUE, TRUE>>)
        names == {NomName, NomRemapName(a("JES"))}
                   \cup {HighName(n) : n \in SystNames} \cup {LowName(n) : n \in SystNames}
                   \cup {NomSysName(n) : n \in SystNames}
                   \cup {RemapName(a(n), v) : n \in SystNames, v \in {"High_", "Low_", "Nom_"}}
    IN  [name \in names |->
           IF name \in {NomName, NomRemapName(a("JES"))} THEN nom
           ELSE IF \E n \in SystNames : name \in {HighName(n), RemapName(a(n), "High_")}
           THEN high
           ELSE IF \E n \in SystNames : name \in {LowName(n), RemapName(a(n), "Low_")}
           THEN low
           ELSE nomSys]

\* Sample.__init__, lines 138-219, and what the configuration pass may have
\* set since: cfg.regions is normRegions, cfg.noRenorm is noRenormSys,
\* cfg.overall and cfg.syst are overallSystList and systList; tree holds the
\* fields that getTreename reads
InitSampleTree(cfg, tree) ==
    /\ configMgrSystDict = {"Lumi"}
    /\ histoSystList = <<>>
    /\ shapeSystList = <<>>
    /\ overallSystList = cfg.overall
    /\ systList = cfg.syst
    /\ systDict = <<>>
    /\ normRegions = cfg.regions
    /\ noRenormSys = cfg.noRenorm
    /\ parentChannel = cfg.parent
    /\ isData = cfg.isData
    /\ normFactor = <<>>
    /\ configMgrNormList = <<>>
    /\ overrideTreename = tree.override
    /\ prefixTreeName = tree.prefix
    /\ suffixTreeName = tree.suffix
    /\ currentSystematic = tree.current
    /\ isQCD = tree.qcd
    /\ isDiscovery = tree.discovery
    /\ call = [a |-> <<>>, op |-> "init", raised |-> "none", returned |-> FALSE]
    /\ nCalls = 0

\* lines 155-157, 180 and 191-195: the tree-name fields as constructed
ConstructedTree ==
    [suffix |-> "", prefix |-> "", override |-> "", current |-> <<>>,
     qcd |-> FALSE, discovery |-> FALSE]

InitSample(cfg) == InitSampleTree(cfg, ConstructedTree)

\* attached to a channel of a fit configuration whose non-validation channels
\* are the control region and the signal region
\* (regions is "".join(parentChannel.regions) of the one-region channel SR)
Attached ==
    [attached |-> TRUE, normChannels |-> << <<"CR", "cuts">>, <<"SR", "cuts">> >>,
     regions |-> "SR", variableName |-> "cuts"]

Detached == [attached |-> FALSE, normChannels |-> <<>>]

\* as constructed, and after setNormRegions([("CR", "cuts")]) (lines 448-456)
Constructed ==
    [isData |-> FALSE, overall |-> <<>>, syst |-> <<>>, regions |-> <<>>,
     noRenorm |-> TRUE, parent |-> Attached]

Configured ==
    [isData |-> FALSE, overall |-> <<>>, syst |-> <<>>,
     regions |-> << <<"CR", "cuts">> >>, noRenorm |-> FALSE, parent |-> Attached]

\* after setNormRegions([]): noRenormSys is False and normRegions is empty
ConfiguredEmpty == [Configured EXCEPT !.regions = <<>>]

\* the same on a Sample never attached to a channel (parentChannel is None)
Orphan == [ConfiguredEmpty EXCEPT !.parent = Detached]

\* the same under a fit configuration without signal or constraining channels
NoChannels == [ConfiguredEmpty EXCEPT !.parent = [Attached EXCEPT !.normChannels = <<>>]]

\* a constructed Sample after addOverallSys("JES", 1.2, 0.8)
WithOverallSys ==
    [Constructed EXCEPT !.overall = << <<"JES", 1200000, 800000>> >>, !.syst = <<"JES">>]

(***************************************************************************)
(* Spec: sequences of calls on one Sample.                                 *)
(***************************************************************************)
ErrVal == BinOne \div 10

\* (nominal, high, low) contents per bin as <<first, step>>, with the state
\* of the Sample: a usual variation on a configured and on a freshly
\* constructed Sample, a variation of negligible size, an empty nominal
Scenarios ==
    { [high |-> <<300, 0>>, low |-> <<100, 0>>, nom |-> <<200, 0>>, cfg |-> Configured],
      [high |-> <<100, 100>>, low |-> <<100, 0>>, nom |-> <<200, 0>>, cfg |-> Constructed],
      [high |-> <<200, 0>>, low |-> <<200, 0>>, nom |-> <<200, 0>>, cfg |-> Constructed],
      [high |-> <<100, 0>>, low |-> <<0, 0>>, nom |-> <<0, 0>>, cfg |-> Configured] }

ScenarioStore(sc) ==
    StoreOf(MkHist(sc.nom[1], sc.nom[2], ErrVal), MkHist(sc.high[1], sc.high[2], ErrVal),
            MkHist(sc.low[1], sc.low[2], ErrVal), MkHist(sc.nom[1], sc.nom[2], ErrVal))

Init ==
    \E sc \in Scenarios :
        /\ hists = ScenarioStore(sc)
        /\ InitSample(sc.cfg)

SeqVals == {0, 800000, One}

ReplaceVals == {<<One, One>>, <<1200000, 800000>>}

Next ==
    \/ \E n \in SystNames, inc, norm, sym, os, env \in BOOLEAN :
         AddHistoSys(HistoSysArgs(n, inc, norm, sym, os, env, "", <<TRUE, TRUE>>))
    \/ \E n \in SystNames, high, low \in SeqVals : AddOverallSys(n, high, low)
    \/ \E n \in SystNames, v \in ReplaceVals : ReplaceOverallSys(<<n, v[1], v[2]>>)
    \/ \E n \in SystNames : RemoveOverallSys(n)
    \/ \E n \in SystNames :
         AddShapeSys(n, NomName, HighName(n), LowName(n), "Gaussian")
    \/ \E n \in SystNames : AddShapeStat(n, NomName, "Gaussian", <<10>>)
    \/ \E n \in SystNames : AddSystematic([name |-> n, type |-> "tree"])

Spec == Init /\ [][Next]_vars

(***************************************************************************)
(* SpecOverallSys: one addOverallSys call, over a grid of values around    *)
(* every threshold of the code, on a Sample whose lists are empty or hold  *)
(* the entry an earlier addOverallSys("JES", 1.2, 0.8) left.               *)
(***************************************************************************)
OverallVals ==
    { -500000, 0, 1, 5, 5000, 9999, 10000, 10001, 50000, 300000, 800000,
      999990, 999995, 999999, One, 1000001, 1000005, 1000010, 1200000,
      1700000, 1990000, 1990001, 1995000, Two, 2500000 }

InitOverallSys ==
    /\ hists = ScenarioStore(CHOOSE sc \in Scenarios : sc.cfg = Configured /\ sc.nom[1] > 0)
    /\ \E cfg \in {Constructed, WithOverallSys} : InitSample(cfg)

NextOverallSys ==
    /\ nCalls = 0
    /\ \E n \in SystNames, high, low \in OverallVals : AddOverallSys(n, high, low)

SpecOverallSys == InitOverallSys /\ [][NextOverallSys]_vars

(***************************************************************************)
(* SpecEnvelope: one symmetrizeSystematicEnvelope call on every store      *)
(* whose nominal, low and high bin contents come from the sets below.      *)
(***************************************************************************)
EnvNomVals == {0, 100, 300}

EnvHighVals == {0, 100, 300}

EnvLowVals == {-100, 0, 100, 300}

InitEnvelope ==
    /\ \E nom \in [Bins -> EnvNomVals], high \in [Bins -> EnvHighVals],
          low \in [Bins -> EnvLowVals] :
         hists = StoreOf(HistOf(nom, ErrVal), HistOf(high, ErrVal),
                         HistOf(low, ErrVal), HistOf(nom, ErrVal))
    /\ InitSample(Constructed)

NextEnvelope ==
    /\ nCalls = 0
    /\ SymmetrizeSystematicEnvelopeCall(NomName, LowName("JES"), HighName("JES"))

SpecEnvelope == InitEnvelope /\ [][NextEnvelope]_vars

(***************************************************************************)
(* SpecNormEffect: one checkNormalizationEffect call on every store whose  *)
(* nominal, up and down bin contents come from the sets below: variations  *)
(* below, at and beyond the threshold of 0.005, and an empty nominal.      *)
(***************************************************************************)
NormNomVals == {0, 600}

NormUpVals == {600, 602, 603, 700}

NormDownVals == {500, 598, 600}

InitNormEffect ==
    /\ \E nom \in [Bins -> NormNomVals], high \in [Bins -> NormUpVals],
          low \in [Bins -> NormDownVals] :
         hists = StoreOf(HistOf(nom, ErrVal), HistOf(high, ErrVal),
                         HistOf(low, ErrVal), HistOf(nom, ErrVal))
    /\ InitSample(Constructed)

NextNormEffect ==
    /\ nCalls = 0
    /\ CheckNormalizationEffectCall(NomName, HighName("JES"), LowName("JES"))

SpecNormEffect == InitNormEffect /\ [][NextNormEffect]_vars

(***************************************************************************)
(* SpecHistoSys: one addHistoSys call, with every combination of flags, on *)
(* every kind of Sample and on stores whose (nominal, high, low) contents  *)
(* per bin make each branch on the integrals and their ratios happen.      *)
(***************************************************************************)
HistoShapes ==
    { <<200, 300, 100>>,     \* high above, low below nominal
      <<200, 180, 170>>,     \* both below: high_ratio 0.9, low_ratio 0.85
      <<200, 300, 240>>,     \* both above: high_ratio 1.5, low_ratio 1.2
      <<200, 300, -100>>,    \* negative low
      <<200, 400, 100>>,     \* high twice the nominal
      <<200, 500, 100>>,     \* high beyond twice the nominal
      <<200, 0, 100>>,       \* empty high
      <<200, 300, 0>>,       \* empty low
      <<200, 200, 200>>,     \* no variation at all
      <<0, 100, 100>> }      \* empty nominal

HistoSysCfgs == {Constructed, Configured, ConfiguredEmpty, Orphan, NoChannels}

InitHistoSys ==
    \E sh \in HistoShapes, cfg \in HistoSysCfgs :
        /\ hists = StoreOf(MkHist(sh[1], 0, ErrVal), MkHist(sh[2], 0, ErrVal),
                           MkHist(sh[3], 0, ErrVal), MkHist(sh[1], 0, ErrVal))
        /\ InitSample(cfg)

NextHistoSys ==
    /\ nCalls = 0
    /\ \E n \in SystNames, inc, norm, sym, os, env \in BOOLEAN :
         AddHistoSys(HistoSysArgs(n, inc, norm, sym, os, env, "", <<TRUE, TRUE>>))

SpecHistoSys == InitHistoSys /\ [][NextHistoSys]_vars

(***************************************************************************)
(* SpecSystematic: addSystematic calls with descriptors of two kinds under *)
(* each name, on a Sample that setData may flag as data at any time.       *)
(***************************************************************************)
SystKinds == {"tree", "weight", "user"}

InitSystematic ==
    /\ hists = ScenarioStore(CHOOSE sc \in Scenarios : sc.cfg = Configured /\ sc.nom[1] > 0)
    /\ InitSample(Constructed)

NextSystematic ==
    \/ \E n \in SystNames, k \in SystKinds : AddSystematic([name |-> n, type |-> k])
    \/ \E flag \in BOOLEAN : SetData(flag)

SpecSystematic == InitSystematic /\ [][NextSystematic]_vars

(***************************************************************************)
(* SpecHistogramName: getHistogramName calls on a Sample with or without   *)
(* channel, flagged as data or not by setData.                             *)
(***************************************************************************)
Variations == {"", "Nom", "High", "Low", "Up", "Down", "Sideways"}

FitName == "Fit"

InitHistogramName ==
    /\ hists = ScenarioStore(CHOOSE sc \in Scenarios : sc.cfg = Configured /\ sc.nom[1] > 0)
    /\ \E cfg \in {Constructed, Orphan} : InitSample(cfg)

NextHistogramName ==
    \/ \E blinded \in BOOLEAN, n \in {""} \cup SystNames, v \in Variations :
         GetHistogramNameCall(SampleName, FitName, blinded, n, v)
    \/ \E flag \in BOOLEAN : SetData(flag)

SpecHistogramName == InitHistogramName /\ [][NextHistogramName]_vars

(***************************************************************************)
(* SpecShapeSys: one addShapeSys call on histograms whose bins are drawn   *)
(* independently, empty nominal bins included.                             *)
(***************************************************************************)
ShapeNomVals == {0, 200}

ShapeHighVals == {150, 200, 300}

ShapeLowVals == {100, 200, 260}

InitShapeSys ==
    /\ \E nom \in [Bins -> ShapeNomVals], high \in [Bins -> ShapeHighVals],
          low \in [Bins -> ShapeLowVals] :
         hists = StoreOf(HistOf(nom, ErrVal), HistOf(high, ErrVal),
                         HistOf(low, ErrVal), HistOf(nom, ErrVal))
    /\ InitSample(Constructed)

NextShapeSys ==
    /\ nCalls = 0
    /\ \E n \in SystNames : AddShapeSys(n, NomName, HighName(n), LowName(n), "Gaussian")

SpecShapeSys == InitShapeSys /\ [][NextShapeSys]_vars

(***************************************************************************)
(* SpecNormFactor: addNormFactor and setNormFactor calls with the same     *)
(* positional arguments.                                                   *)
(***************************************************************************)
NormFactorNames == {"mu_Top", "mu_W"}

NormFactorVals == {0, One, 5 * One}

InitNormFactor ==
    /\ hists = ScenarioStore(CHOOSE sc \in Scenarios : sc.cfg = Configured /\ sc.nom[1] > 0)
    /\ InitSample(Constructed)

NextNormFactor ==
    \/ \E n \in NormFactorNames, third, fourth \in NormFactorVals, const \in BOOLEAN :
         AddNormFactor(n, One, third, fourth, const)
    \/ \E n \in NormFactorNames, third, fourth \in NormFactorVals, const \in BOOLEAN :
         SetNormFactor(n, One, third, fourth, const)

SpecNormFactor == InitNormFactor /\ [][NextNormFactor]_vars

(***************************************************************************)
(* SpecTreename: getTreename calls on Samples whose tree-name fields are   *)
(* as constructed or as the setters setPrefixTreeName, setSuffixTreeName,  *)
(* setOverrideTreename, setCurrentSystematic, setQCD and setDiscovery      *)
(* leave them; setData may flag the Sample at any time.                    *)
(***************************************************************************)
TreeStates ==
    { [suffix |-> s, prefix |-> p, override |-> o, current |-> c,
       qcd |-> q, discovery |-> d] :
        o \in {"", "tree"}, p \in {"", "top"}, s \in {"", "_v2"},
        c \in {<<>>, <<"_JESup">>}, q \in BOOLEAN, d \in BOOLEAN }

TreeSuffixes == {"", "_JESdown"}

InitTreename ==
    /\ hists = ScenarioStore(CHOOSE sc \in Scenarios : sc.cfg = Configured /\ sc.nom[1] > 0)
    /\ \E tree \in TreeStates : InitSampleTree(Constructed, tree)

NextTreename ==
    \/ \E suffix \in TreeSuffixes : GetTreenameCall(SampleName, suffix)
    \/ \E flag \in BOOLEAN : SetData(flag)

SpecTreename == InitTreename /\ [][NextTreename]_vars

(***************************************************************************)
(* Properties.                                                             *)
(***************************************************************************)
\* the last entry of a non-empty list
Last(list) == list[Len(list)]

\* the step is an addOverallSys call
IsAddOverallSys == call'.op = "addOverallSys" /\ nCalls' = nCalls + 1

\* the step appended exactly the entry e to overallSystList
AppendedOverall(e) == overallSystList' = Append(overallSystList, e)

\* v raised to 0.01
AtLeastCent(v) == IF v < 10000 THEN 10000 ELSE v

\* v is within 1e-5 of w
Near(v, w) == v - w < 10 /\ w - v < 10

\* C1: overallSystList holds no entry whose high and low are both within 1e-5
\* of 1.0, and none whose high and low are both within 1e-5 of 0.0, after any
\* sequence of addOverallSys, addHistoSys, replaceOverallSys and
\* removeOverallSys calls.
C1_NoInformationFreeEntry ==
    \A i \in 1..Len(overallSystList) :
        /\ ~(Near(overallSystList[i][2], 1000000) /\ Near(overallSystList[i][3], 1000000))
        /\ ~(Near(overallSystList[i][2], 0) /\ Near(overallSystList[i][3], 0))

\* C2: addOverallSys(name, 1.0, 1.0) and addOverallSys(name, 0.0, 0.0) change
\* neither overallSystList nor systList and raise nothing.
C2_NoInformationIsNoOp ==
    [][(/\ IsAddOverallSys
        /\ \/ (call'.a.high = 1000000 /\ call'.a.low = 1000000)
           \/ (call'.a.high = 0 /\ call'.a.low = 0))
       => (/\ overallSystList' = overallSystList
           /\ systList' = systList
           /\ call'.raised = "none")]_vars

C2_Witness ==
    /\ call.op = "addOverallSys"
    /\ call.a.high = 0 /\ call.a.low = 0
    /\ overallSystList = << <<"JES", 1200000, 800000>> >>
    /\ systList = <<"JES">>

\* C3 as claimed: for every v not in {0, 1}, addOverallSys(name, v, v) stores
\* an entry whose low is 2.0 - v and whose (high, low) is not (v, v).
C3_EqualPairStoresTwoMinusV ==
    [][(IsAddOverallSys /\ call'.a.high = call'.a.low /\ call'.a.high \notin {0, 1000000})
       => (/\ Len(overallSystList') = Len(overallSystList) + 1
           /\ Last(overallSystList')[3] = 2000000 - call'.a.high
           /\ <<Last(overallSystList')[2], Last(overallSystList')[3]>>
                # <<call'.a.high, call'.a.low>>)]_vars

\* C3 as amended: for every v other than 0 and not within 1e-5 of 1.0,
\* addOverallSys(name, v, v) stores the entry (name, max(v, 0.01),
\* max(2.0 - v, 0.01)), which is never (v, v); for v within 1e-5 of 1.0 it
\* stores nothing.
C3_EqualPairIsMirroredAndClamped ==
    [][(IsAddOverallSys /\ call'.a.high = call'.a.low /\ call'.a.high # 0)
       => IF Near(call'.a.high, 1000000)
          THEN overallSystList' = overallSystList
          ELSE /\ AppendedOverall(<<call'.a.systName, AtLeastCent(call'.a.high),
                                    AtLeastCent(2000000 - call'.a.high)>>)
               /\ <<Last(overallSystList')[2], Last(overallSystList')[3]>>
                    # <<call'.a.high, call'.a.low>>]_vars

C3_Witness ==
    /\ call.op = "addOverallSys"
    /\ call.a.high = 300000 /\ call.a.low = 300000
    /\ Len(overallSystList) > 0
    /\ Last(overallSystList) = <<call.a.systName, 300000, 1700000>>

\* C4: when exactly one of high/low is 1.0 and the other side o is positive
\* and not 1.0, the entry stored is the pair with the 1.0-valued side replaced
\* by 2.0 - o, each side raised to 0.01 (nothing is stored when o is within
\* 1e-5 of 1.0); when o <= 0 the 1.0-valued side is stored as 1.0.
C4_PinnedSideIsMirrored ==
    [][IsAddOverallSys =>
         LET high == call'.a.high
             low  == call'.a.low
             n    == call'.a.systName
         IN  /\ (high = 1000000 /\ low > 0 /\ low # 1000000) =>
                   IF Near(low, 1000000) THEN overallSystList' = overallSystList
                   ELSE AppendedOverall(<<n, AtLeastCent(2000000 - low), AtLeastCent(low)>>)
             /\ (low = 1000000 /\ high > 0 /\ high # 1000000) =>
                   IF Near(high, 1000000) THEN overallSystList' = overallSystList
                   ELSE AppendedOverall(<<n, AtLeastCent(high), AtLeastCent(2000000 - high)>>)
             /\ (high = 1000000 /\ low <= 0) => AppendedOverall(<<n, 1000000, 10000>>)
             /\ (low = 1000000 /\ high <= 0) => AppendedOverall(<<n, 10000, 1000000>>)]_vars

C4_Witness ==
    /\ call.op = "addOverallSys"
    /\ call.a.high = 1000000 /\ call.a.low = 800000
    /\ Len(overallSystList) > 0
    /\ Last(overallSystList) = <<call.a.systName, 1200000, 800000>>

\* C5 as claimed: for high, low both above 0.01, different, and not both
\* within 1e-5 of 1.0, the entry appended is (name, high, low).
C5_DistinctPairStoredAsGiven ==
    [][(/\ IsAddOverallSys
        /\ call'.a.high > 10000 /\ call'.a.low > 10000
        /\ call'.a.high # call'.a.low
        /\ ~(Near(call'.a.high, 1000000) /\ Near(call'.a.low, 1000000)))
       => AppendedOverall(<<call'.a.systName, call'.a.high, call'.a.low>>)]_vars

\* C5 as amended: for high, low both above 0.01, different, neither equal to
\* 1.0, and not both within 1e-5 of 1.0, the entry appended is (name, high, low).
C5_UnpinnedPairStoredAsGiven ==
    [][(/\ IsAddOverallSys
        /\ call'.a.high > 10000 /\ call'.a.low > 10000
        /\ call'.a.high # call'.a.low
        /\ call'.a.high # 1000000 /\ call'.a.low # 1000000
        /\ ~(Near(call'.a.high, 1000000) /\ Near(call'.a.low, 1000000)))
       => AppendedOverall(<<call'.a.systName, call'.a.high, call'.a.low>>)]_vars

C5_Witness ==
    /\ call.op = "addOverallSys"
    /\ call.a.high = 50000 /\ call.a.low = 1000005
    /\ Len(overallSystList) = 2
    /\ Last(overallSystList) = <<call.a.systName, 50000, 1000005>>

\* C6: every entry addOverallSys has appended has high >= 0.01 and low >= 0.01,
\* for negative inputs and for values the mirroring rules produce.
C6_StoredValuesAtLeastCent ==
    \A i \in 1..Len(overallSystList) :
        overallSystList[i][2] >= 10000 /\ overallSystList[i][3] >= 10000

C6_Witness ==
    /\ call.op = "addOverallSys"
    /\ call.a.high = 1000000 /\ call.a.low = 2500000
    /\ Len(overallSystList) > 0
    /\ Last(overallSystList) = <<call.a.systName, 10000, 2500000>>

\* C7: systList never holds the same systematic name twice.
C7_NoNameTwice ==
    \A i, j \in 1..Len(systList) : i # j => systList[i] # systList[j]

\* the names of the entries of a list
NamesOf(list) == {list[i][1] : i \in 1..Len(list)}

\* C8: every systematic name in histoSystList, shapeSystList or
\* overallSystList is in systList, unless it is a key of configMgr.systDict.
C8_ListedNamesAreRegistered ==
    \A n \in NamesOf(histoSystList) \cup NamesOf(shapeSystList) \cup NamesOf(overallSystList) :
        n \in configMgrSystDict \/ \E i \in 1..Len(systList) : systList[i] = n

C8_Witness ==
    /\ call.op = "addHistoSys"
    /\ "JES" \in NamesOf(histoSystList) /\ "JES" \in NamesOf(overallSystList)
    /\ "Lumi" \in NamesOf(histoSystList)
    /\ \E i \in 1..Len(systList) : systList[i] = "JES"

C10_EnvelopeLowNotNegative ==
    call.op = "symmetrizeSystematicEnvelope" =>
        \A i \in 1..NBins : hists[call.a.lowName].c[i] >= 0

\* |x|
Abs(x) == IF x < 0 THEN -x ELSE x

\* C11: checkNormalizationEffect returns False exactly when the nominal
\* integral is non-zero and max(|up/nom - 1|, |down/nom - 1|) < 0.005, and
\* returns True otherwise; it raises nothing.
C11_FalseIffNegligible ==
    call.op = "checkNormalizationEffect" =>
        LET nomI == call.a.nomI
            negligible == /\ nomI # 0
                          /\ Abs(call.a.upI - nomI) * 200 < Abs(nomI)
                          /\ Abs(call.a.downI - nomI) * 200 < Abs(nomI)
        IN  /\ call.raised = "none"
            /\ call.returned <=> ~negligible

\* the step is an addHistoSys call
IsAddHistoSys == call'.op = "addHistoSys" /\ nCalls' = nCalls + 1

\* the step left the three lists of the Sample as they were
ListsUnchanged ==
    /\ histoSystList' = histoSystList
    /\ overallSystList' = overallSystList
    /\ systList' = systList

\* C12: addHistoSys with oneSide and symmetrizeEnvelope both true aborts at
\* once: it appends nothing to histoSystList, overallSystList or systList and
\* changes no histogram of the store.
C12_ContradictoryFlagsAbort ==
    [][(IsAddHistoSys /\ call'.a.oneSide /\ call'.a.symmetrizeEnvelope)
       => (ListsUnchanged /\ hists' = hists /\ call'.raised # "none")]_vars

C12_Witness ==
    /\ call.op = "addHistoSys"
    /\ call.a.oneSide /\ call.a.symmetrizeEnvelope
    /\ call.a.symmetrize /\ call.a.normalizeSys /\ call.a.includeOverallSys
    /\ call.raised = "Fatal"
    /\ histoSystList = <<>>

\* the step appended one entry to histoSystList, for the call's systematic and
\* with the Norm clone of the high histogram
AppendedNormEntry ==
    /\ Len(histoSystList') = Len(histoSystList) + 1
    /\ SubSeq(histoSystList', 1, Len(histoSystList)) = histoSystList
    /\ Last(histoSystList')[1] = call'.a.systName
    /\ Last(histoSystList')[2] = call'.a.highName \o "Norm"

\* C13 as claimed: addHistoSys with normalizeSys on a Sample whose normRegions
\* were never configured (attached to a fit configuration with non-validation
\* channels, flags not contradictory) sets normRegions to the default of the
\* parent and goes on as Case 1, raising nothing.
C13_DefaultRegionsWhenNeverConfigured ==
    [][(/\ IsAddHistoSys
        /\ call'.a.normalizeSys /\ ~(call'.a.oneSide /\ call'.a.symmetrizeEnvelope)
        /\ normRegions = <<>> /\ noRenormSys
        /\ parentChannel.attached /\ parentChannel.normChannels # <<>>)
       => (/\ normRegions' = parentChannel.normChannels
           /\ call'.raised = "none"
           /\ IF call'.returned THEN ListsUnchanged ELSE AppendedNormEntry)]_vars

\* C13 as amended: with normalizeSys on a Sample whose normRegions is empty,
\* if noRenormSys is still set (setNormRegions was never called) normRegions
\* stays empty and the request is dropped; if noRenormSys was cleared,
\* normRegions becomes the default of the parent fit configuration and the
\* call goes on as Case 1 (it returns without an entry when an integral is
\* zero, else appends a Norm entry), raising RuntimeError when that default is
\* empty and AttributeError when the Sample has no parent channel.
C13_DefaultRegionsWhenFlagCleared ==
    [][(/\ IsAddHistoSys
        /\ call'.a.normalizeSys /\ ~(call'.a.oneSide /\ call'.a.symmetrizeEnvelope)
        /\ normRegions = <<>>)
       => IF noRenormSys
          THEN normRegions' = <<>> /\ noRenormSys'
          ELSE IF ~parentChannel.attached
          THEN call'.raised = "AttributeError" /\ ListsUnchanged /\ normRegions' = <<>>
          ELSE /\ normRegions' = parentChannel.normChannels
               /\ ~noRenormSys'
               /\ IF parentChannel.normChannels = <<>>
                  THEN call'.raised = "RuntimeError" /\ ListsUnchanged
                  ELSE /\ call'.raised = "none"
                       /\ IF call'.returned THEN ListsUnchanged ELSE AppendedNormEntry]_vars

C13_Witness ==
    /\ call.op = "addHistoSys"
    /\ call.a.normalizeSys /\ ~call.a.includeOverallSys
    /\ normRegions = << <<"CR", "cuts">>, <<"SR", "cuts">> >>
    /\ ~noRenormSys
    /\ histoSystList = << <<"JES", "hTopJESHigh_SRNorm", "hTopJESLow_SRNorm">> >>
    /\ systList = <<"JES">>

\* the call's normalizeSys survives lines 680-682
NormalizeRequested == call'.a.normalizeSys /\ ~noRenormSys

\* the call passes lines 652-704: flags not contradictory, regions at hand
ReachesCases ==
    /\ ~(call'.a.oneSide /\ call'.a.symmetrizeEnvelope)
    /\ NormalizeRequested =>
         \/ normRegions # <<>>
         \/ parentChannel.attached /\ parentChannel.normChannels # <<>>

\* C14: in Case 1, when the nominal, high or low integral of the normalization
\* histograms is zero (the low integral being 2*nom - high for a symmetrized
\* one-sided systematic), and in Case 3 with plain symmetrize, when the nominal
\* integral is zero or the high integral is zero where the high ratio is
\* inverted (0 < low ratio < 1), addHistoSys returns without raising and
\* leaves histoSystList, overallSystList and systList unchanged.
C14_ZeroIntegralDropsSystematic ==
    [][(IsAddHistoSys /\ ReachesCases) =>
         LET a == call'.a
             nomRI == Integral(hists["h" \o a.samName \o "Nom_" \o a.normString \o "Norm"])
             highRI == Integral(hists["h" \o a.samName \o a.systName \o "High_"
                                      \o a.normString \o "Norm"])
             lowRI == Integral(hists["h" \o a.samName \o a.systName \o "Low_"
                                     \o a.normString \o "Norm"])
             lowEff == IF ~(a.oneSide /\ a.symmetrize) THEN lowRI
                       ELSE IF 2 * nomRI - highRI >= 0 THEN 2 * nomRI - highRI
                       ELSE IF lowRI = 0 THEN nomRI ELSE lowRI
             nomI == Integral(hists[a.nomName])
             highI == Integral(hists[a.highName])
             lowI == Integral(hists[a.lowName])
             case1Zero == /\ NormalizeRequested
                          /\ nomRI = 0 \/ highRI = 0 \/ lowEff = 0
             case3Zero == /\ ~NormalizeRequested /\ ~a.includeOverallSys
                          /\ a.symmetrize /\ ~a.oneSide /\ ~a.symmetrizeEnvelope
                          /\ \/ nomI = 0
                             \/ highI = 0 /\ lowI * nomI > 0 /\ Abs(lowI) < Abs(nomI)
         IN  (case1Zero \/ case3Zero) =>
                 (call'.raised = "none" /\ call'.returned /\ ListsUnchanged)]_vars

C14_Witness ==
    /\ call.op = "addHistoSys"
    /\ call.a.normalizeSys /\ ~noRenormSys /\ call.a.includeOverallSys
    /\ Integral(hists[call.a.highName]) = 0
    /\ Integral(hists[call.a.lowName]) > 0
    /\ call.raised = "none" /\ call.returned
    /\ (call.a.highName \o "Norm") \in DOMAIN hists
    /\ histoSystList = <<>> /\ overallSystList = <<>> /\ systList = <<>>

\* C15: in Case 2 (normalizeSys false, includeOverallSys true), with the
\* integrals taken as the code takes them (after the symmetrization of lines
\* 849-863): if the nominal, high or low integral is zero the raw entry
\* (systName, highName, lowName) is appended to histoSystList and
\* overallSystList is unchanged; otherwise (systName, highName+"Norm",
\* lowName+"Norm") is appended and overallSystList is what
\* addOverallSys(systName, highIntegral/nomIntegral, lowIntegral/nomIntegral)
\* makes of it.
C15_Case2RawOrNormalized ==
    [][(/\ IsAddHistoSys
        /\ ~(call'.a.oneSide /\ call'.a.symmetrizeEnvelope)
        /\ call'.a.includeOverallSys /\ ~call'.a.normalizeSys) =>
         LET a == call'.a
             nomI == Integral(hists'[a.nomName])
             highI == Integral(hists'[a.highName])
             lowI == Integral(hists'[a.lowName])
         IN  /\ call'.raised = "none"
             /\ IF nomI = 0 \/ highI = 0 \/ lowI = 0
                THEN /\ histoSystList' =
                          Append(histoSystList, <<a.systName, a.highName, a.lowName>>)
                     /\ overallSystList' = overallSystList
                ELSE /\ histoSystList' =
                          Append(histoSystList, <<a.systName, a.highName \o "Norm",
                                                  a.lowName \o "Norm">>)
                     /\ overallSystList' =
                          OverallSysEffect(overallSystList, systList, a.systName,
                                           (highI * 1000000) \div nomI,
                                           (lowI * 1000000) \div nomI).overall]_vars

C15_Witness ==
    /\ call.op = "addHistoSys"
    /\ call.a.includeOverallSys /\ ~call.a.normalizeSys /\ ~call.a.symmetrize
    /\ ~call.a.symmetrizeEnvelope
    /\ histoSystList = << <<"JES", "hTopJESHigh_SRNorm", "hTopJESLow_SRNorm">> >>
    /\ overallSystList = << <<"JES", 1500000, 500000>> >>

\* Case 3 with plain symmetrize and a non-zero nominal integral, with
\* high_ratio and low_ratio the integral ratios to nominal: if high_ratio < 1
\* and 0 < low_ratio < 1 the entry is (systName, highName+"Norm", lowName),
\* the Norm histogram being high scaled by (2 - low_ratio)/high_ratio; else if
\* both ratios are > 1 the entry is (systName, highName, lowName+"Norm"), the
\* Norm histogram being low scaled by (2 - high_ratio)/low_ratio; else if
\* low_ratio < 0 the entry is (systName, highName, lowName+"Norm"), the Norm
\* histogram being low with its negative bins set to zero; otherwise the
\* entry is (systName, highName, lowName).  The high and low histograms
\* themselves are unchanged.  With dropOnZero, a high_ratio of zero in the
\* first branch makes the call return without an entry.
PlainSymmetrizeBranches(dropOnZero) ==
    (/\ IsAddHistoSys
     /\ ~call'.a.includeOverallSys /\ ~NormalizeRequested
     /\ call'.a.symmetrize /\ ~call'.a.oneSide /\ ~call'.a.symmetrizeEnvelope
     /\ Integral(hists[call'.a.nomName]) # 0) =>
      LET a == call'.a
          nomI == Integral(hists[a.nomName])
          high == (Integral(hists[a.highName]) * 1000000) \div nomI
          low == (Integral(hists[a.lowName]) * 1000000) \div nomI
          hN == a.highName \o "Norm"
          lN == a.lowName \o "Norm"
          entry(h, l) == histoSystList' = Append(histoSystList, <<a.systName, h, l>>)
      IN  /\ hists'[a.highName] = hists[a.highName]
          /\ hists'[a.lowName] = hists[a.lowName]
          /\ IF high < 1000000 /\ 0 < low /\ low < 1000000
             THEN IF dropOnZero /\ high = 0
                  THEN ListsUnchanged /\ call'.returned /\ call'.raised = "none"
                  ELSE /\ entry(hN, a.lowName)
                       /\ \A i \in 1..NBins :
                            hists'[hN].c[i] =
                              (hists[a.highName].c[i] * (2000000 - low)) \div high
             ELSE IF low > 1000000 /\ high > 1000000
             THEN /\ entry(a.highName, lN)
                  /\ \A i \in 1..NBins :
                       hists'[lN].c[i] =
                         (hists[a.lowName].c[i] * (2000000 - high)) \div low
             ELSE IF low < 0
             THEN /\ entry(a.highName, lN)
                  /\ \A i \in 1..NBins :
                       hists'[lN].c[i] = IF hists[a.lowName].c[i] < 0 THEN 0
                                         ELSE hists[a.lowName].c[i]
             ELSE entry(a.highName, a.lowName) /\ hists' = hists

\* C16 as claimed: in Case 3 with plain symmetrize the entry follows the four
\* branches on high_ratio and low_ratio, the first of them (high_ratio < 1 and
\* 0 < low_ratio < 1) always making an entry with the rescaled high clone.
C16_PlainSymmetrizeAlwaysEnters == [][PlainSymmetrizeBranches(FALSE)]_vars

\* C16 as amended: the same four branches, except that in the first branch a
\* high_ratio of zero makes no entry: the call returns and the lists are
\* unchanged.
C16_PlainSymmetrizeBranches == [][PlainSymmetrizeBranches(TRUE)]_vars

\* high_ratio 0.9 and low_ratio 0.85: the high clone is scaled by 1.15/0.9
C16_Witness ==
    /\ call.op = "addHistoSys"
    /\ call.a.symmetrize /\ ~call.a.includeOverallSys /\ ~call.a.oneSide
    /\ hists[call.a.nomName].c[1] = 200
    /\ hists[call.a.highName].c[1] = 180
    /\ hists[call.a.lowName].c[1] = 170
    /\ histoSystList = << <<"JES", "hTopJESHigh_SRNorm", "hTopJESLow_SR">> >>
    /\ hists["hTopJESHigh_SRNorm"].c[1] = 230

\* C17: in the Case 3 default branch (includeOverallSys, normalizeSys and
\* symmetrize all false) addHistoSys appends (systName, highName, lowName) to
\* histoSystList and returns normally, also when both integral ratios are
\* within 0.005 of 1.
C17_DefaultBranchAlwaysAppends ==
    [][(/\ IsAddHistoSys
        /\ ~(call'.a.oneSide /\ call'.a.symmetrizeEnvelope)
        /\ ~call'.a.includeOverallSys /\ ~call'.a.normalizeSys /\ ~call'.a.symmetrize)
       => (/\ call'.raised = "none"
           /\ histoSystList' = Append(histoSystList,
                  <<call'.a.systName, call'.a.highName, call'.a.lowName>>))]_vars

\* C18: each addShapeSys(systName, nomName, highName, lowName, constraintType)
\* call appends exactly one record (systName, histName, constraintType) to
\* shapeSystList.
C18_ShapeSysAppendsOneRecord ==
    [][(call'.op = "addShapeSys" /\ nCalls' = nCalls + 1)
       => (/\ Len(shapeSystList') = Len(shapeSystList) + 1
           /\ SubSeq(shapeSystList', 1, Len(shapeSystList)) = shapeSystList
           /\ Last(shapeSystList')[1] = call'.a.systName
           /\ Last(shapeSystList')[3] = call'.a.constraintType)]_vars

\* the step is an addSystematic call
IsAddSystematic == call'.op = "addSystematic" /\ nCalls' = nCalls + 1

\* C19: on a Sample with isData set, addSystematic(syst) leaves systDict
\* unchanged and raises nothing, also when syst.name is a key of systDict.
C19_DataSampleTakesNoSystematic ==
    [][(IsAddSystematic /\ isData)
       => (systDict' = systDict /\ call'.raised = "none")]_vars

C19_Witness ==
    /\ call.op = "addSystematic"
    /\ isData
    /\ call.a.syst.name \in DOMAIN systDict
    /\ systDict[call.a.syst.name] # call.a.syst
    /\ call.raised = "none"

\* C20: on a Sample that is not data, addSystematic with a name that is a key
\* of systDict raises and leaves systDict unchanged; with a new name it stores
\* the descriptor under that name and changes no other key.
C20_NoOverwriteOfSystematic ==
    [][(IsAddSystematic /\ ~isData) =>
         LET syst == call'.a.syst
         IN  IF syst.name \in DOMAIN systDict
             THEN call'.raised = "Exception" /\ systDict' = systDict
             ELSE /\ call'.raised = "none"
                  /\ DOMAIN systDict' = DOMAIN systDict \cup {syst.name}
                  /\ systDict'[syst.name] = syst
                  /\ \A k \in DOMAIN systDict : systDict'[k] = systDict[k]]_vars

C20_Witness ==
    /\ call.op = "addSystematic"
    /\ ~isData
    /\ call.raised = "Exception"
    /\ call.a.syst.name \in DOMAIN systDict
    /\ systDict[call.a.syst.name] # call.a.syst

\* the step is a getHistogramName call
IsGetHistogramName == call'.op = "getHistogramName" /\ nCalls' = nCalls + 1

\* C21: on a Sample of a channel, getHistogramName raises ValueError when a
\* Sample that is not data is asked for a variation outside
\* {"", Nom, High, Low, Up, Down} and when a data Sample is asked for a
\* non-empty variation; for every other input it returns a name, which for Up
\* is the name for High and for Down the name for Low.
C21_UnknownVariationIsValueError ==
    [][(IsGetHistogramName /\ parentChannel.attached) =>
         LET v == call'.a.variation
         IN  IF \/ ~isData /\ v \notin {"", "Nom", "High", "Low", "Up", "Down"}
                \/ isData /\ v # ""
             THEN call'.raised = "ValueError"
             ELSE /\ call'.raised = "none"
                  /\ call'.returned # <<>>
                  /\ (~isData /\ v = "Up") =>
                        call'.returned = getHistogramName(SampleName, FALSE, parentChannel,
                            FitName, call'.a.blinded, call'.a.syst_name, "High")[2]
                  /\ (~isData /\ v = "Down") =>
                        call'.returned = getHistogramName(SampleName, FALSE, parentChannel,
                            FitName, call'.a.blinded, call'.a.syst_name, "Low")[2]]_vars

\* C22: with every referenced histogram in the store, addHistoSys raises to
\* its caller only when oneSide and symmetrizeEnvelope are both set or when a
\* division of the nomSysName rescale fails; every other call returns.
C22_RaisesOnlyInFatalCases ==
    [][IsAddHistoSys =>
         (call'.raised # "none" =>
            \/ call'.a.oneSide /\ call'.a.symmetrizeEnvelope
            \/ call'.a.nomSysName # "" /\ call'.a.divideOk # <<TRUE, TRUE>>)]_vars

\* the call passes the fatal test and enters Case 2 (lines 845-846)
EntersCase2 ==
    /\ ~(call'.a.oneSide /\ call'.a.symmetrizeEnvelope)
    /\ call'.a.includeOverallSys
    /\ ~NormalizeRequested

\* C23: Case 2 applies the symmetrization policy of Case 1: after a call that
\* enters Case 2 the high and low histograms are what the policy of Case 1
\* (envelope for symmetrize with symmetrizeEnvelope, one-sided mirror for
\* oneSide with symmetrize, untouched otherwise) makes of them.
C23_Case2PolicyAsCase1 ==
    [][(IsAddHistoSys /\ EntersCase2) =>
         LET a  == call'.a
             hs == SymmetrizePolicyCase1(hists, a, a.symmetrize)
         IN  /\ hists'[a.highName] = hs[a.highName]
             /\ hists'[a.lowName] = hs[a.lowName]]_vars

\* the call passes the fatal test and enters Case 3 (lines 921-922)
EntersCase3 ==
    /\ ~(call'.a.oneSide /\ call'.a.symmetrizeEnvelope)
    /\ ~call'.a.includeOverallSys
    /\ ~NormalizeRequested

\* C24: in Case 3 with symmetrize and oneSide, after addHistoSys every bin
\* 1..N of the histogram under lowName is max(0, 2*nominal - high), the high
\* and nominal histograms are unchanged and the entry appended to
\* histoSystList is (systName, highName, lowName).
C24_OneSidedMirrorInCase3 ==
    [][(IsAddHistoSys /\ EntersCase3 /\ call'.a.symmetrize /\ call'.a.oneSide) =>
         LET a == call'.a
         IN  /\ \A i \in Bins :
                  hists'[a.lowName].c[i] =
                    max(0, 2 * hists[a.nomName].c[i] - hists[a.highName].c[i])
             /\ hists'[a.highName] = hists[a.highName]
             /\ hists'[a.nomName] = hists[a.nomName]
             /\ histoSystList' = Append(histoSystList, <<a.systName, a.highName, a.lowName>>)
             /\ call'.raised = "none"]_vars

\* a one-sided variation above twice the nominal, whose mirror is clamped
C24_Witness ==
    /\ call.op = "addHistoSys"
    /\ call.raised = "none"
    /\ call.a.symmetrize /\ call.a.oneSide /\ ~call.a.symmetrizeEnvelope
    /\ ~call.a.includeOverallSys
    /\ ~(call.a.normalizeSys /\ ~noRenormSys)
    /\ hists[call.a.highName].c[1] > 2 * hists[call.a.nomName].c[1]
    /\ hists[call.a.lowName].c[1] = 0
    /\ Len(histoSystList) = 1
    /\ Last(histoSystList) = <<call.a.systName, call.a.highName, call.a.lowName>>

\* C25: the three cases of addHistoSys exclude each other within one call:
\* a call appends at most one entry to histoSystList and at most one to
\* overallSystList, and removes none.
C25_AtMostOneEntryPerList ==
    [][IsAddHistoSys =>
         /\ \/ histoSystList' = histoSystList
            \/ Len(histoSystList') = Len(histoSystList) + 1
               /\ SubSeq(histoSystList', 1, Len(histoSystList)) = histoSystList
         /\ \/ overallSystList' = overallSystList
            \/ Len(overallSystList') = Len(overallSystList) + 1
               /\ SubSeq(overallSystList', 1, Len(overallSystList)) = overallSystList]_vars

\* normalizeSys downgraded by noRenormSys, then Case 2 with one entry in each list
C25_Witness ==
    /\ call.op = "addHistoSys"
    /\ call.raised = "none"
    /\ call.a.normalizeSys /\ noRenormSys
    /\ call.a.includeOverallSys
    /\ Len(histoSystList) = 1
    /\ Len(overallSystList) = 1

\* |v / nominal - 1| in units of 1/BinOne, 0 for an empty nominal bin
RelDev(v, nominal) ==
    IF nominal = 0 THEN 0 ELSE Abs((v * BinOne) \div nominal - BinOne)

\* C26: after addShapeSys, every bin 1..N of the histogram under
\* nomName+"Norm" holds max(|high/nominal - 1|, |low/nominal - 1|) of the
\* original bin contents (0 where the nominal bin is empty) with bin error 0,
\* and the histograms under nomName, highName and lowName are unchanged.
C26_ShapeSysMaxDeviation ==
    [][(call'.op = "addShapeSys" /\ nCalls' = nCalls + 1) =>
         LET a == call'.a
             n == hists'[a.nomName \o "Norm"]
         IN  /\ \A i \in Bins :
                  /\ n.c[i] = max(RelDev(hists[a.highName].c[i], hists[a.nomName].c[i]),
                                  RelDev(hists[a.lowName].c[i], hists[a.nomName].c[i]))
                  /\ n.e[i] = 0
             /\ hists'[a.nomName] = hists[a.nomName]
             /\ hists'[a.highName] = hists[a.highName]
             /\ hists'[a.lowName] = hists[a.lowName]]_vars

\* an empty nominal bin next to a bin where the low deviation is the larger
C26_Witness ==
    /\ call.op = "addShapeSys"
    /\ \E i, j \in Bins :
         /\ hists[call.a.nomName].c[i] = 0
         /\ hists[call.a.nomName \o "Norm"].c[i] = 0
         /\ hists[call.a.nomName].c[j] > 0
         /\ hists[call.a.nomName \o "Norm"].c[j]
              = RelDev(hists[call.a.lowName].c[j], hists[call.a.nomName].c[j])
         /\ hists[call.a.nomName \o "Norm"].c[j]
              > RelDev(hists[call.a.highName].c[j], hists[call.a.nomName].c[j])
         /\ hists[call.a.nomName \o "Norm"].e[j] = 0

\* C27: every entry that addOverallSys appends to overallSystList has
\* high # low, also when both values given are below 0.01.
C27_StoredPairHasWidth ==
    [][(IsAddOverallSys /\ Len(overallSystList') > Len(overallSystList)) =>
         Last(overallSystList')[2] # Last(overallSystList')[3]]_vars

\* C28: removeOverallSys(name) on a Sample whose overallSystList holds an
\* entry for name removes the first such entry, keeps the others in order and
\* raises nothing, whether or not name is a key of systDict.
C28_RemoveOverallSysReturns ==
    [][(/\ call'.op = "removeOverallSys"
        /\ nCalls' = nCalls + 1
        /\ FirstIndex(overallSystList, call'.a.systName) # 0) =>
         /\ overallSystList' =
              DeleteAt(overallSystList, FirstIndex(overallSystList, call'.a.systName))
         /\ call'.raised = "none"]_vars

\* no name occurs twice in the list
NoDuplicates(list) ==
    \A i, j \in 1..Len(list) : list[i] = list[j] => i = j

\* C29: setNormFactor(name, val, a, b, const) leaves normFactor equal to the
\* one-element list that addNormFactor(name, val, a, b, const) makes of an
\* empty normFactor, and neither call lists a name twice in configMgr.normList.
C29_SetNormFactorAsAddOnEmpty ==
    [][(call'.op \in {"addNormFactor", "setNormFactor"} /\ nCalls' = nCalls + 1) =>
         /\ NoDuplicates(configMgrNormList')
         /\ call'.op = "setNormFactor" =>
              normFactor' = addNormFactorList(<<>>, call'.a[1], call'.a[2], call'.a[3],
                                              call'.a[4], call'.a[5])]_vars

\* C30: on a Sample without override tree name, getTreename(suffix) raises
\* nothing and returns prefixTreeName (the sample name when the prefix is
\* empty) followed by the suffix: the given one when it is not empty,
\* otherwise the value of getTreenameSuffix().
C30_TreenameIsPrefixThenSuffix ==
    [][(call'.op = "getTreename" /\ nCalls' = nCalls + 1 /\ overrideTreename = "") =>
         /\ call'.raised = "none"
         /\ call'.returned =
              (IF prefixTreeName = "" THEN SampleName ELSE prefixTreeName)
                \o (IF call'.a.suffix # "" THEN call'.a.suffix ELSE getTreenameSuffix)]_vars

====
